---- MODULE Spec2Model ----
(***************************************************************************)
(* e-kamotsu (app.py): the Flask/SQLite record store for inbound shipment  *)
(* ("hainyu") records.  The model holds the committed SQLite database, the *)
(* database write lock, and one request at a time per connection; every    *)
(* SQL statement of a handler is one step.                                 *)
(*                                                                         *)
(* Values are tagged records [t, v].  Text is a sequence of one-character  *)
(* strings.  A REAL is held in fixed point: v counts tenths.               *)
(***************************************************************************)
EXTENDS Integers, Sequences, FiniteSets, TLC

VARIABLES db, lock, pc, req, tx, idx, hrow, resp, lastOp

vars == <<db, lock, pc, req, tx, idx, hrow, resp, lastOp>>

----------------------------------------------------------------------------
(* Values: JSON values of a request body and SQLite storage classes.       *)

NULL == [t |-> "null", v |-> 0]

IntV(n) == [t |-> "int", v |-> n]

RealV(n) == [t |-> "real", v |-> n]

TextV(s) == [t |-> "text", v |-> s]

BoolV(b) == [t |-> "bool", v |-> b]

\* a JSON array, v its elements
ArrayV(s) == [t |-> "array", v |-> s]

\* a JSON object, v the dict of its members
ObjectV(d) == [t |-> "object", v |-> d]

IsNum(x) == x.t \in {"int", "real"}

\* the numeric value of a number, in tenths
Tenths(x) == IF x.t = "int" THEN x.v * 10 ELSE x.v

\* two JSON values are the same value: numbers by numeric value (JSON has
\* one number type), everything else by tag and content
SameValue(x, y) ==
    IF IsNum(x) /\ IsNum(y) THEN Tenths(x) = Tenths(y) ELSE x = y

----------------------------------------------------------------------------
(* Python dict access.                                                     *)

EmptyDict == [f \in {} |-> NULL]

\* d.get(key)
Get(d, key) == IF key \in DOMAIN d THEN d[key] ELSE NULL

\* d.get(key, default)
GetDefault(d, key, default) == IF key \in DOMAIN d THEN d[key] ELSE default

----------------------------------------------------------------------------
(* Text.                                                                   *)

Digits == <<"0", "1", "2", "3", "4", "5", "6", "7", "8", "9">>

IsDigit(c) == \E i \in 1..10 : Digits[i] = c

DigitVal(c) == (CHOOSE i \in 1..10 : Digits[i] = c) - 1

AllDigits(s) == s # <<>> /\ \A i \in 1..Len(s) : IsDigit(s[i])

RECURSIVE TextToInt(_)
TextToInt(s) ==
    IF s = <<>> THEN 0
    ELSE TextToInt(SubSeq(s, 1, Len(s) - 1)) * 10 + DigitVal(s[Len(s)])

RECURSIVE IntToText(_)
IntToText(n) ==
    IF n < 10 THEN <<Digits[n + 1]>>
    ELSE IntToText(n \div 10) \o <<Digits[(n % 10) + 1]>>

RealToText(n) == IntToText(n \div 10) \o <<".">> \o <<Digits[(n % 10) + 1]>>

\* digits "." digit : a decimal literal with one fractional digit
IsDecimalText(s) ==
    /\ Len(s) >= 3
    /\ s[Len(s) - 1] = "."
    /\ IsDigit(s[Len(s)])
    /\ AllDigits(SubSeq(s, 1, Len(s) - 2))

\* SQLite: a text that looks like a number converts to INTEGER or REAL;
\* any other text is left as it is
TextToNum(s) ==
    IF AllDigits(s) THEN IntV(TextToInt(s))
    ELSE IF IsDecimalText(s)
         THEN RealV(TextToInt(SubSeq(s, 1, Len(s) - 2)) * 10 + DigitVal(s[Len(s)]))
         ELSE TextV(s)

\* ASCII order of the characters the model uses (BINARY collation)
AsciiOrder ==
    <<" ", "%", "-", ".", "/", "0", "1", "2", "3", "4", "5", "6", "7", "8", "9",
      "A", "B", "C", "D", "E", "F", "G", "H", "I", "J", "K", "L", "M",
      "N", "O", "P", "Q", "R", "S", "T", "U", "V", "W", "X", "Y", "Z", "_",
      "a", "b", "c", "d", "e", "f", "g", "h", "i", "j", "k", "l", "m",
      "n", "o", "p", "q", "r", "s", "t", "u", "v", "w", "x", "y", "z">>

Code(c) == CHOOSE i \in 1..Len(AsciiOrder) : AsciiOrder[i] = c

\* ASCII lower case: LIKE folds the 26 ASCII letters only
Fold(c) == IF Code(c) >= Code("A") /\ Code(c) <= Code("Z")
           THEN AsciiOrder[Code(c) + (Code("a") - Code("A"))]
           ELSE c

\* memcmp order on text: s before t
RECURSIVE TextLess(_, _)
TextLess(s, t) ==
    IF t = <<>> THEN FALSE
    ELSE IF s = <<>> THEN TRUE
    ELSE IF Code(s[1]) # Code(t[1]) THEN Code(s[1]) < Code(t[1])
    ELSE TextLess(Tail(s), Tail(t))

\* str.strip()
RECURSIVE LStrip(_)
LStrip(s) == IF s # <<>> /\ s[1] = " " THEN LStrip(Tail(s)) ELSE s

RECURSIVE RStrip(_)
RStrip(s) ==
    IF s # <<>> /\ s[Len(s)] = " " THEN RStrip(SubSeq(s, 1, Len(s) - 1)) ELSE s

Strip(s) == RStrip(LStrip(s))

\* X LIKE pattern on two texts: % any run, _ any one character, letters
\* compared without ASCII case
RECURSIVE LikeText(_, _)
LikeText(s, p) ==
    IF p = <<>> THEN s = <<>>
    ELSE IF p[1] = "%"
         THEN LikeText(s, Tail(p)) \/ (s # <<>> /\ LikeText(Tail(s), p))
    ELSE IF s = <<>> THEN FALSE
    ELSE IF p[1] = "_" THEN LikeText(Tail(s), Tail(p))
    ELSE Fold(s[1]) = Fold(p[1]) /\ LikeText(Tail(s), Tail(p))

\* column LIKE ? : NULL LIKE p is NULL, which a WHERE treats as false
Like(x, p) == x.t = "text" /\ LikeText(x.v, p)

----------------------------------------------------------------------------
(* Schema: column type affinity, parameter binding.                        *)

\* the value a column of the given declared type stores for x
ApplyAffinity(aff, x) ==
    CASE aff = "TEXT" ->
           IF x.t = "int" THEN TextV(IntToText(x.v))
           ELSE IF x.t = "real" THEN TextV(RealToText(x.v))
           ELSE x
      [] aff = "INTEGER" ->
           LET n == IF x.t = "text" THEN TextToNum(x.v) ELSE x
           IN  IF n.t = "real" /\ n.v % 10 = 0 THEN IntV(n.v \div 10) ELSE n
      [] aff = "REAL" ->
           LET n == IF x.t = "text" THEN TextToNum(x.v) ELSE x
           IN  IF n.t = "int" THEN RealV(n.v * 10) ELSE n

\* sqlite3 binds None, int, float and str; a bool is an int; a list or a
\* dict has no adapter and the execute call raises
Bindable(x) == x.t \notin {"array", "object"}

BindParam(x) == IF x.t = "bool" THEN IntV(IF x.v THEN 1 ELSE 0) ELSE x

StoreAs(aff, x) == ApplyAffinity(aff, BindParam(x))

\* hainyu_items: JSON key, column, declared type
ItemCols ==
    << <<"packageType", "package_type", "TEXT">>,
       <<"noFrom", "no_from", "INTEGER">>,
       <<"noTo", "no_to", "INTEGER">>,
       <<"qty", "qty", "INTEGER">>,
       <<"L", "L", "REAL">>,
       <<"W", "W", "REAL">>,
       <<"H", "H", "REAL">>,
       <<"weightKg", "weight_kg", "REAL">>,
       <<"m3", "m3", "REAL">> >>

ItemKeys == {ItemCols[i][1] : i \in 1..Len(ItemCols)}

NumericKeys == ItemKeys \ {"packageType"}

\* hainyu_headers text columns written by a save: JSON key, column
HeaderCols ==
    << <<"date", "date">>, <<"shipper", "shipper">>, <<"dest", "dest">>,
       <<"itemName", "item_name">>, <<"mark", "mark">> >>

HeaderKeys == {HeaderCols[i][1] : i \in 1..Len(HeaderCols)}

EmptyDb == [headers |-> {}, items |-> {}, seq |-> 0]

NoTx == [headers |-> {}, items |-> {}, seq |-> -1]

----------------------------------------------------------------------------
(* The statements of api_save_hainyu.                                      *)

\* data.get("header") or {}
HeaderOf(data) ==
    LET h == Get(data, "header")
    IN  IF h.t = "object" THEN h.v ELSE EmptyDict

\* data.get("items") or []
ItemsOf(data) ==
    LET l == Get(data, "items")
    IN  IF l.t = "array" THEN l.v ELSE <<>>

\* the five header parameters of the upsert
HeaderParams(header) ==
    [date      |-> Get(header, "date"),
     shipper   |-> GetDefault(header, "shipper", TextV(<<>>)),
     dest      |-> GetDefault(header, "dest", TextV(<<>>)),
     item_name |-> GetDefault(header, "itemName", TextV(<<>>)),
     mark      |-> GetDefault(header, "mark", TextV(<<>>))]

HeaderBindable(header) ==
    \A f \in DOMAIN HeaderParams(header) : Bindable(HeaderParams(header)[f])

\* the upsert without its ON CONFLICT clause finding the row
NeverConflict(d, id) == FALSE

HasHeader(d, id) == \E r \in d.headers : r.hainyu_id = id

\* INSERT OR REPLACE INTO hainyu_headers: the old row goes, mark_image
\* with it
UpsertReplace(d, id, p) ==
    [d EXCEPT !.headers = {r \in d.headers : r.hainyu_id # id} \cup
        {[hainyu_id  |-> id,
          date       |-> StoreAs("TEXT", p.date),
          shipper    |-> StoreAs("TEXT", p.shipper),
          dest       |-> StoreAs("TEXT", p.dest),
          item_name  |-> StoreAs("TEXT", p.item_name),
          mark       |-> StoreAs("TEXT", p.mark),
          mark_image |-> NULL]}]

\* INSERT INTO hainyu_headers ... ON CONFLICT(hainyu_id) DO UPDATE SET the
\* five text columns
UpsertHeader(d, id, p) ==
    IF HasHeader(d, id)
    THEN [d EXCEPT !.headers =
            {IF r.hainyu_id = id
             THEN [r EXCEPT !.date      = StoreAs("TEXT", p.date),
                            !.shipper   = StoreAs("TEXT", p.shipper),
                            !.dest      = StoreAs("TEXT", p.dest),
                            !.item_name = StoreAs("TEXT", p.item_name),
                            !.mark      = StoreAs("TEXT", p.mark)]
             ELSE r : r \in d.headers}]
    ELSE [d EXCEPT !.headers = d.headers \cup
            {[hainyu_id  |-> id,
              date       |-> StoreAs("TEXT", p.date),
              shipper    |-> StoreAs("TEXT", p.shipper),
              dest       |-> StoreAs("TEXT", p.dest),
              item_name  |-> StoreAs("TEXT", p.item_name),
              mark       |-> StoreAs("TEXT", p.mark),
              mark_image |-> NULL]}]

\* the save without its DELETE
DeleteNothing(d, id) == d

\* DELETE FROM hainyu_items WHERE hainyu_id = ?
DeleteItems(d, id) ==
    [d EXCEPT !.items = {r \in d.items : r.hainyu_id # id}]

ItemBindable(it) == \A key \in ItemKeys : Bindable(Get(it, key))

\* INSERT INTO hainyu_items (...) VALUES (...): the row id is one more than
\* the largest ever used (AUTOINCREMENT)
InsertItem(d, id, it) ==
    [d EXCEPT !.seq = d.seq + 1,
              !.items = d.items \cup
                {[id           |-> d.seq + 1,
                  hainyu_id    |-> id,
                  package_type |-> StoreAs("TEXT", Get(it, "packageType")),
                  no_from      |-> StoreAs("INTEGER", Get(it, "noFrom")),
                  no_to        |-> StoreAs("INTEGER", Get(it, "noTo")),
                  qty          |-> StoreAs("INTEGER", Get(it, "qty")),
                  L            |-> StoreAs("REAL", Get(it, "L")),
                  W            |-> StoreAs("REAL", Get(it, "W")),
                  H            |-> StoreAs("REAL", Get(it, "H")),
                  weight_kg    |-> StoreAs("REAL", Get(it, "weightKg")),
                  m3           |-> StoreAs("REAL", Get(it, "m3"))]}]

----------------------------------------------------------------------------
(* The statements of api_get_hainyu.                                       *)

\* SELECT ... FROM hainyu_headers WHERE hainyu_id = ?
SelectHeader(d, id) == {r \in d.headers : r.hainyu_id = id}

RECURSIVE OrderById(_)
OrderById(rows) ==
    IF rows = {} THEN <<>>
    ELSE LET m == CHOOSE r \in rows : \A o \in rows : r.id <= o.id
         IN  <<m>> \o OrderById(rows \ {m})

\* the item rows with ORDER BY id DESC
SelectItemsDesc(d, id) ==
    LET rows == OrderById({r \in d.items : r.hainyu_id = id})
    IN  [i \in 1..Len(rows) |-> rows[Len(rows) + 1 - i]]

\* SELECT ... FROM hainyu_items WHERE hainyu_id = ? ORDER BY id
SelectItems(d, id) == OrderById({r \in d.items : r.hainyu_id = id})

HeaderJson(r) ==
    [hainyu_id |-> r.hainyu_id, date |-> r.date, shipper |-> r.shipper,
     dest |-> r.dest, itemName |-> r.item_name, mark |-> r.mark,
     markImage |-> r.mark_image]

ItemJson(r) ==
    [id |-> r.id, packageType |-> r.package_type, noFrom |-> r.no_from,
     noTo |-> r.no_to, qty |-> r.qty, L |-> r.L, W |-> r.W, H |-> r.H,
     weightKg |-> r.weight_kg, m3 |-> r.m3]

ItemsJson(rows) == [i \in 1..Len(rows) |-> ItemJson(rows[i])]

----------------------------------------------------------------------------
(* api_upload_mark_image.                                                  *)

AllowedExt ==
    { <<".", "j", "p", "g">>, <<".", "j", "p", "e", "g">>,
      <<".", "p", "n", "g">>, <<".", "g", "i", "f">>,
      <<".", "w", "e", "b", "p">>, <<".", "b", "m", "p">> }

\* str.lower()
Lower(s) == [i \in 1..Len(s) |-> Fold(s[i])]

\* os.path.splitext(name)[1]: from the last dot, unless the name starts there
SplitExt(name) ==
    LET dots == {i \in 2..Len(name) : name[i] = "."}
    IN  IF dots = {} THEN <<>>
        ELSE SubSeq(name, CHOOSE i \in dots : \A j \in dots : j <= i, Len(name))

ImageExt(name) ==
    LET ext == IF SplitExt(name) = <<>> THEN <<".", "j", "p", "g">>
               ELSE Lower(SplitExt(name))
    IN  IF ext \in AllowedExt THEN ext ELSE <<".", "j", "p", "g">>

MarkDir == <<"m", "a", "r", "k", "_", "i", "m", "a", "g", "e", "s", "/">>

\* mark_images/{hainyu_id}_{int(time.time())}{ext}
RelPath(id, now, name) ==
    TextV(MarkDir \o id.v \o <<"_">> \o IntToText(now) \o ImageExt(name))

\* INSERT INTO hainyu_headers (..., mark_image) VALUES (?, '', '', '', '', '', ?)
\* ON CONFLICT(hainyu_id) DO UPDATE SET mark_image = excluded.mark_image
UpsertMarkImage(d, id, path) ==
    IF HasHeader(d, id)
    THEN [d EXCEPT !.headers =
            {IF r.hainyu_id = id
             THEN [r EXCEPT !.mark_image = StoreAs("TEXT", path)]
             ELSE r : r \in d.headers}]
    ELSE [d EXCEPT !.headers = d.headers \cup
            {[hainyu_id  |-> id,
              date       |-> TextV(<<>>),
              shipper    |-> TextV(<<>>),
              dest       |-> TextV(<<>>),
              item_name  |-> TextV(<<>>),
              mark       |-> TextV(<<>>),
              mark_image |-> StoreAs("TEXT", path)]}]

----------------------------------------------------------------------------
(* api_search and api_summary.                                             *)

\* x < y on a TEXT column: NULL sorts before every text
ColLess(x, y) ==
    IF x.t = "null" THEN y.t # "null"
    ELSE IF y.t = "null" THEN FALSE
    ELSE TextLess(x.v, y.v)

\* ORDER BY date DESC, hainyu_id DESC
BeforeIdDesc(a, b) ==
    \/ ColLess(b.date, a.date)
    \/ a.date = b.date /\ ColLess(b.hainyu_id, a.hainyu_id)

\* ORDER BY date DESC, hainyu_id ASC: row a is placed before row b
Before(a, b) ==
    \/ ColLess(b.date, a.date)
    \/ a.date = b.date /\ ColLess(a.hainyu_id, b.hainyu_id)

RECURSIVE OrderHeaders(_)
OrderHeaders(rows) ==
    IF rows = {} THEN <<>>
    ELSE LET m == CHOOSE r \in rows : \A o \in rows : ~Before(o, r)
         IN  <<m>> \o OrderHeaders(rows \ {m})

Limit(rows, n) == SubSeq(rows, 1, IF Len(rows) < n THEN Len(rows) ELSE n)

SearchLimit == 100

SummaryLimit == 500

\* the WHERE clause of api_search for the pattern %q%
SearchWhere(r, like) ==
    \/ Like(r.hainyu_id, like)
    \/ Like(r.shipper, like)
    \/ Like(r.dest, like)
    \/ Like(r.item_name, like)
    \/ Like(r.mark, like)

SearchRows(d, arg) ==
    LET q == Strip(arg)
        like == <<"%">> \o q \o <<"%">>
        rows == IF q # <<>> THEN {r \in d.headers : SearchWhere(r, like)}
                ELSE d.headers
    IN  Limit(OrderHeaders(rows), SearchLimit)

SearchJson(r) ==
    [hainyuId |-> r.hainyu_id, date |-> r.date, shipper |-> r.shipper,
     dest |-> r.dest, itemName |-> r.item_name, lastUpdated |-> r.date]

\* the numeric value SQLite arithmetic gives a stored value: a text that
\* does not look like a number counts as 0
CastNum(x) ==
    IF x.t = "text"
    THEN (IF TextToNum(x.v).t = "text" THEN IntV(0) ELSE TextToNum(x.v))
    ELSE x

\* x * y
Mul(x, y) ==
    IF x.t = "null" \/ y.t = "null" THEN NULL
    ELSE LET a == CastNum(x)
             b == CastNum(y)
         IN  IF a.t = "int" /\ b.t = "int" THEN IntV(a.v * b.v)
             ELSE RealV((Tenths(a) * Tenths(b)) \div 10)

RECURSIVE TenthsTotal(_, _)
TenthsTotal(rows, val) ==
    IF rows = {} THEN 0
    ELSE LET r == CHOOSE x \in rows : TRUE
         IN  Tenths(CastNum(val[r])) + TenthsTotal(rows \ {r}, val)

\* SUM(expr) over the rows of a group: NULL inputs are skipped, no input
\* gives NULL, integer inputs give an integer and any other gives a REAL
Sum(rows, val) ==
    LET given == {r \in rows : val[r].t # "null"}
    IN  IF given = {} THEN NULL
        ELSE IF \A r \in given : val[r].t = "int"
             THEN IntV(TenthsTotal(given, val) \div 10)
             ELSE RealV(TenthsTotal(given, val))

\* SUM(...) without its COALESCE
CoalesceNone(x) == x

\* COALESCE(x, 0)
Coalesce0(x) == IF x.t = "null" THEN IntV(0) ELSE x

\* float(x or 0)
ToFloat(x) == IF x.t = "null" THEN RealV(0) ELSE RealV(Tenths(x))

\* h.date >= ? and h.date <= ? on text
DateGE(x, p) == x.t = "text" /\ ~TextLess(x.v, p)

DateLE(x, p) == x.t = "text" /\ ~TextLess(p, x.v)

\* the WHERE clause of api_summary: a blank filter adds no condition
SummaryWhere(h, f) ==
    /\ Strip(f.dateFrom) # <<>> => DateGE(h.date, Strip(f.dateFrom))
    /\ Strip(f.dateTo) # <<>> => DateLE(h.date, Strip(f.dateTo))
    /\ Strip(f.shipper) # <<>> =>
          Like(h.shipper, <<"%">> \o Strip(f.shipper) \o <<"%">>)
    /\ Strip(f.dest) # <<>> =>
          Like(h.dest, <<"%">> \o Strip(f.dest) \o <<"%">>)

\* one output row of the LEFT JOIN ... GROUP BY for header h
SummaryJson(d, h) ==
    LET group == {i \in d.items : i.hainyu_id = h.hainyu_id}
    IN  [hainyuId    |-> h.hainyu_id,
         date        |-> h.date,
         shipper     |-> h.shipper,
         dest        |-> h.dest,
         itemName    |-> h.item_name,
         itemCount   |-> IntV(Cardinality(group)),
         totalQty    |-> Coalesce0(Sum(group, [i \in group |-> i.qty])),
         totalM3     |-> ToFloat(Coalesce0(Sum(group, [i \in group |-> i.m3]))),
         totalWeight |-> ToFloat(Coalesce0(Sum(group,
                           [i \in group |-> Mul(i.qty, i.weight_kg)]))),
         markImage   |-> h.mark_image]

SummaryRows(d, f) ==
    Limit(OrderHeaders({h \in d.headers : SummaryWhere(h, f)}), SummaryLimit)

----------------------------------------------------------------------------
(* Requests.  Each request runs on a connection of its own (get_db); a     *)
(* connection slot serves one request at a time.                           *)

Conns == {1, 2}

\* the largest row id hainyu_items hands out in a behaviour
MaxRowId == 3

NoReq == [op |-> "none"]

NoResp == [status |-> 0]

NoRow == [hainyu_id |-> NULL]

NoOp == [op |-> "none"]

\* an exception that leaves the handler: Flask answers 500
Failure(kind) == [status |-> 500, error |-> kind]

Init ==
    /\ db = EmptyDb
    /\ lock = 0
    /\ pc = [c \in Conns |-> "idle"]
    /\ req = [c \in Conns |-> NoReq]
    /\ tx = [c \in Conns |-> NoTx]
    /\ idx = [c \in Conns |-> 0]
    /\ hrow = [c \in Conns |-> NoRow]
    /\ resp = [c \in Conns |-> NoResp]
    /\ lastOp = NoOp

\* a connection in autocommit mode (isolation_level=None)
CommittedAtOnce(d, t) == t

\* sqlite3.connect(DB_PATH) with the default isolation level: the module
\* opens a transaction before the first INSERT/UPDATE/DELETE, so what other
\* connections read stays d until commit(); t is the connection's own view
Committed(d, t) == d

\* the write lock of the database file is free
LockFree(l) == l = 0

\* a handler that commits on its way out of a failure
RollbackKeeps(d, t) == t

\* a connection released with an open transaction: SQLite rolls it back
Rollback(d, t) == d

\* api_save_hainyu up to its first statement, the header upsert, which
\* takes the write lock
SaveUpsert(c, id, data) ==
    /\ pc[c] = "idle"
    /\ LockFree(lock)
    /\ db.seq + Len(ItemsOf(data)) <= MaxRowId
    /\ IF HeaderBindable(HeaderOf(data))
       THEN /\ req' = [req EXCEPT ![c] =
                         [op |-> "save", id |-> id, data |-> data]]
            /\ lock' = c
            /\ tx' = [tx EXCEPT ![c] =
                        UpsertHeader(db, id, HeaderParams(HeaderOf(data)))]
            /\ db' = Committed(db, tx'[c])
            /\ pc' = [pc EXCEPT ![c] = "delete"]
            /\ resp' = resp
       ELSE /\ pc' = [pc EXCEPT ![c] = "done"]
            /\ resp' = [resp EXCEPT ![c] = Failure("bind")]
            /\ UNCHANGED <<req, lock, tx, db>>
    /\ UNCHANGED <<idx, hrow, lastOp>>

\* a statement that needs the write lock while another connection holds it:
\* sqlite3 gives up after its timeout with "database is locked"
Busy(c) ==
    /\ pc[c] = "idle"
    /\ ~LockFree(lock)
    /\ pc' = [pc EXCEPT ![c] = "done"]
    /\ resp' = [resp EXCEPT ![c] = Failure("locked")]
    /\ UNCHANGED <<db, lock, req, tx, idx, hrow, lastOp>>

\* api_save_hainyu whose header upsert finds the database locked
SaveBusy(c) == Busy(c) /\ TRUE

\* DELETE FROM hainyu_items WHERE hainyu_id = ?
SaveDelete(c) ==
    /\ pc[c] = "delete"
    /\ tx' = [tx EXCEPT ![c] = DeleteItems(tx[c], req[c].id)]
    /\ db' = Committed(db, tx'[c])
    /\ idx' = [idx EXCEPT ![c] = 1]
    /\ pc' = [pc EXCEPT ![c] = "insert"]
    /\ UNCHANGED <<lock, req, hrow, resp, lastOp>>

\* one turn of the loop "for it in items": the INSERT, or the exception of
\* a parameter that cannot be bound
SaveInsert(c) ==
    /\ pc[c] = "insert"
    /\ idx[c] <= Len(ItemsOf(req[c].data))
    /\ IF ItemBindable(ItemsOf(req[c].data)[idx[c]])
       THEN /\ tx' = [tx EXCEPT ![c] =
                        InsertItem(tx[c], req[c].id,
                                   ItemsOf(req[c].data)[idx[c]])]
            /\ db' = Committed(db, tx'[c])
            /\ idx' = [idx EXCEPT ![c] = idx[c] + 1]
            /\ UNCHANGED <<pc, resp>>
            /\ UNCHANGED <<lock, req>>
       ELSE /\ pc' = [pc EXCEPT ![c] = "done"]
            /\ resp' = [resp EXCEPT ![c] = Failure("bind")]
            /\ db' = Rollback(db, tx[c])
            /\ lock' = 0
            /\ tx' = [tx EXCEPT ![c] = NoTx]
            /\ idx' = [idx EXCEPT ![c] = 0]
            /\ req' = req
    /\ UNCHANGED <<hrow, lastOp>>

\* conn.commit(); conn.close(); return {"status": "ok"}
SaveCommit(c) ==
    /\ pc[c] = "insert"
    /\ idx[c] > Len(ItemsOf(req[c].data))
    /\ db' = tx[c]
    /\ lock' = 0
    /\ tx' = [tx EXCEPT ![c] = NoTx]
    /\ idx' = [idx EXCEPT ![c] = 0]
    /\ pc' = [pc EXCEPT ![c] = "done"]
    /\ resp' = [resp EXCEPT ![c] = [status |-> 200]]
    /\ lastOp' = req[c]
    /\ req' = [req EXCEPT ![c] = NoReq]
    /\ UNCHANGED hrow

\* the storage engine fails the DELETE, an INSERT or the commit (disk
\* full, I/O error): the exception leaves the handler before conn.commit()
\* and the connection goes with its transaction open
StorageError(c) ==
    /\ pc[c] \in {"delete", "insert"}
    /\ pc' = [pc EXCEPT ![c] = "done"]
    /\ resp' = [resp EXCEPT ![c] = Failure("storage")]
    /\ db' = Rollback(db, tx[c])
    /\ lock' = 0
    /\ tx' = [tx EXCEPT ![c] = NoTx]
    /\ idx' = [idx EXCEPT ![c] = 0]
    /\ UNCHANGED <<req, hrow, lastOp>>

\* the response has been sent; the slot takes the next request
Return(c) ==
    /\ pc[c] = "done"
    /\ pc' = [pc EXCEPT ![c] = "idle"]
    /\ req' = [req EXCEPT ![c] = NoReq]
    /\ resp' = [resp EXCEPT ![c] = NoResp]
    /\ hrow' = [hrow EXCEPT ![c] = NoRow]
    /\ UNCHANGED <<db, lock, tx, idx, lastOp>>

\* "file" not in request.files, or f.filename == ""
NoUpload(file) == IF file.t = "null" THEN TRUE ELSE file.v = <<>>

\* api_upload_mark_image: file is the uploaded file's name, or NULL when the
\* request has no "file" part
UploadMarkImage(c, id, file, now) ==
    /\ pc[c] = "idle"
    /\ IF NoUpload(file) THEN TRUE ELSE LockFree(lock)
    /\ pc' = [pc EXCEPT ![c] = "done"]
    /\ IF NoUpload(file)
       THEN /\ resp' = [resp EXCEPT ![c] = [status |-> 400]]
            /\ UNCHANGED <<db, lastOp>>
       ELSE /\ db' = UpsertMarkImage(db, id, RelPath(id, now, file.v))
            /\ resp' = [resp EXCEPT ![c] = [status |-> 200]]
            /\ lastOp' = [op |-> "upload", id |-> id,
                          path |-> RelPath(id, now, file.v)]
    /\ UNCHANGED <<lock, req, tx, idx, hrow>>

\* api_upload_mark_image whose upsert finds the database locked
UploadBusy(c, file) == ~NoUpload(file) /\ Busy(c)

\* api_get_hainyu, first SELECT: the header row, or 404
GetHeader(c, id) ==
    /\ pc[c] = "idle"
    /\ req' = [req EXCEPT ![c] = [op |-> "get", id |-> id]]
    /\ IF SelectHeader(db, id) = {}
       THEN /\ pc' = [pc EXCEPT ![c] = "done"]
            /\ resp' = [resp EXCEPT ![c] = [status |-> 404]]
            /\ hrow' = hrow
       ELSE /\ pc' = [pc EXCEPT ![c] = "items"]
            /\ hrow' = [hrow EXCEPT ![c] =
                          CHOOSE r \in SelectHeader(db, id) : TRUE]
            /\ resp' = resp
    /\ UNCHANGED <<db, lock, tx, idx, lastOp>>

\* api_get_hainyu, second SELECT: the item rows, and the response
GetItems(c) ==
    /\ pc[c] = "items"
    /\ pc' = [pc EXCEPT ![c] = "done"]
    /\ resp' = [resp EXCEPT ![c] =
                  [status |-> 200,
                   header |-> HeaderJson(hrow[c]),
                   items  |-> ItemsJson(SelectItems(db, req[c].id))]]
    /\ UNCHANGED <<db, lock, req, tx, idx, hrow, lastOp>>

\* api_search
Search(c, q) ==
    /\ pc[c] = "idle"
    /\ req' = [req EXCEPT ![c] = [op |-> "search", q |-> q]]
    /\ pc' = [pc EXCEPT ![c] = "done"]
    /\ resp' = [resp EXCEPT ![c] =
                  [status |-> 200,
                   results |-> [i \in 1..Len(SearchRows(db, q)) |->
                                  SearchJson(SearchRows(db, q)[i])]]]
    /\ UNCHANGED <<db, lock, tx, idx, hrow, lastOp>>

\* api_summary
Summary(c, f) ==
    /\ pc[c] = "idle"
    /\ req' = [req EXCEPT ![c] = [op |-> "summary", filters |-> f]]
    /\ pc' = [pc EXCEPT ![c] = "done"]
    /\ resp' = [resp EXCEPT ![c] =
                  [status |-> 200,
                   results |-> [i \in 1..Len(SummaryRows(db, f)) |->
                                  SummaryJson(db, SummaryRows(db, f)[i])]]]
    /\ UNCHANGED <<db, lock, tx, idx, hrow, lastOp>>

----------------------------------------------------------------------------
(* Inputs.                                                                 *)

IdA == TextV(<<"a">>)

IdB == TextV(<<"B">>)

Jan1 == TextV(<<"2", "0", "2", "4", "-", "0", "1", "-", "0", "1">>)

Jan2 == TextV(<<"2", "0", "2", "4", "-", "0", "1", "-", "0", "2">>)

HdrAcme ==
    [date |-> Jan1, shipper |-> TextV(<<"A", "C", "M", "E">>),
     dest |-> TextV(<<"T", "o", "k", "y", "o">>),
     itemName |-> TextV(<<"B", "o", "x">>), mark |-> TextV(<<"M", "1">>)]

HdrBolt ==
    [date |-> Jan2, shipper |-> TextV(<<"B", "o", "l", "t">>),
     dest |-> TextV(<<"O", "s", "a", "k", "a">>),
     itemName |-> TextV(<<"N", "u", "t">>), mark |-> TextV(<<"M", "2">>)]

\* a header with keys left out
HdrShort == [shipper |-> TextV(<<"C", "o">>)]

ItemCtn ==
    [packageType |-> TextV(<<"C", "T", "N">>), noFrom |-> IntV(1),
     noTo |-> IntV(2), qty |-> IntV(2), L |-> IntV(1), W |-> IntV(1),
     H |-> IntV(1), weightKg |-> RealV(15), m3 |-> RealV(1)]

ItemPlt ==
    [packageType |-> TextV(<<"P", "L", "T">>), noFrom |-> IntV(3),
     noTo |-> IntV(5), qty |-> IntV(3), L |-> RealV(12), W |-> RealV(10),
     H |-> RealV(5), weightKg |-> IntV(1), m3 |-> RealV(2)]

ItemBag ==
    [packageType |-> TextV(<<"B", "A", "G">>), qty |-> IntV(1),
     weightKg |-> NULL]

\* an item whose qty is a JSON array: its INSERT raises
ItemArray == [packageType |-> TextV(<<"C", "T", "N">>), qty |-> ArrayV(<<>>)]

StoreIds == {IdA, IdB}

\* the JSON body {"header": {...}, "items": [...]}
Body(header, items) == [header |-> ObjectV(header), items |-> ArrayV(items)]

StoreBodies ==
    { Body(HdrAcme, <<ItemCtn, ItemPlt>>),
      Body(HdrBolt, <<ItemBag>>),
      Body(HdrShort, <<>>) }

PhotoPng == TextV(<<"p", ".", "P", "N", "G">>)

NotesTxt == TextV(<<"n", ".", "t", "x", "t">>)

StoreFiles == {NULL, TextV(<<>>), PhotoPng}

Clock == {1}

----------------------------------------------------------------------------
(* The record store under concurrent requests.                             *)

Next ==
    \/ \E c \in Conns, id \in StoreIds, data \in StoreBodies :
          SaveUpsert(c, id, data)
    \/ \E c \in Conns : SaveBusy(c)
    \/ \E c \in Conns : SaveDelete(c)
    \/ \E c \in Conns : SaveInsert(c)
    \/ \E c \in Conns : SaveCommit(c)
    \/ \E c \in Conns : StorageError(c)
    \/ \E c \in Conns, id \in StoreIds, file \in StoreFiles, now \in Clock :
          UploadMarkImage(c, id, file, now)
    \/ \E c \in Conns, file \in StoreFiles : UploadBusy(c, file)
    \/ \E c \in Conns : Return(c)

Spec == Init /\ [][Next]_vars

----------------------------------------------------------------------------
(* What the claims speak of.                                               *)

Blank == TextV(<<>>)

\* identifier id has a header row
Known(d, id) == id \in {r.hainyu_id : r \in d.headers}

HeaderRow(d, id) == CHOOSE r \in d.headers : r.hainyu_id = id

ItemRows(d, id) == {r \in d.items : r.hainyu_id = id}

OtherItemRows(d, id) == {r \in d.items : r.hainyu_id # id}

\* the step in which connection c commits its save
SaveCommitStep(c) ==
    pc[c] = "insert" /\ pc'[c] = "done" /\ resp'[c].status = 200

\* the step in which an upload stores a path
UploadStep == lastOp'.op = "upload" /\ (lastOp' # lastOp \/ db' # db)

\* a stored or returned item carries the submitted item's values
ItemHolds(r, it) ==
    \A i \in 1..Len(ItemCols) : SameValue(r[ItemCols[i][2]], Get(it, ItemCols[i][1]))

\* the item rows under id are the submitted list, in its order
ItemsHold(d, id, items) ==
    LET rows == ItemRows(d, id)
    IN  /\ Cardinality(rows) = Len(items)
        /\ \A r1, r2 \in rows : r1.id = r2.id => r1 = r2
        /\ \A r \in rows :
              ItemHolds(r, items[1 + Cardinality({o \in rows : o.id < r.id})])

\* a header row carries the submitted header: a key left out is the empty
\* string or null
HeaderHolds(r, header) ==
    \A i \in 1..Len(HeaderCols) :
        IF HeaderCols[i][1] \in DOMAIN header
        THEN SameValue(r[HeaderCols[i][2]], header[HeaderCols[i][1]])
        ELSE r[HeaderCols[i][2]] \in {NULL, Blank}

----------------------------------------------------------------------------
(* Claims on the record store under concurrent requests (Spec).            *)

\* C2: a committed save leaves under its identifier exactly the submitted
\* items, in order (none for an empty list), leaves the item rows of every
\* other identifier as they were, and no other step changes an item row.
C2_FullReplace ==
    [][IF \E c \in Conns : SaveCommitStep(c)
       THEN \A c \in Conns : SaveCommitStep(c) =>
              /\ ItemsHold(db', req[c].id, ItemsOf(req[c].data))
              /\ OtherItemRows(db', req[c].id) = OtherItemRows(db, req[c].id)
       ELSE db'.items = db.items]_vars

\* a save of one item has replaced everything stored before it
C2_Witness ==
    /\ lastOp.op = "save"
    /\ Len(ItemsOf(lastOp.data)) = 1
    /\ db.seq >= 3
    /\ Cardinality(db.items) = 1

\* C3: from the header upsert of a save until its end, the committed
\* database changes only by that save's commit, which installs the whole
\* transaction; a save that fails leaves the committed database as it was.
C3_AtomicSave ==
    [][\A c \in Conns :
         /\ (pc[c] = "idle" /\ pc'[c] = "delete") => db' = db
         /\ pc[c] \in {"delete", "insert"} =>
              IF SaveCommitStep(c)
              THEN /\ db' = tx[c]
                   /\ Cardinality(ItemRows(db', req[c].id))
                        = Len(ItemsOf(req[c].data))
              ELSE db' = db]_vars

\* a save of two items has failed and the items stored before are there
C3_Witness ==
    \E c \in Conns :
        /\ pc[c] = "done"
        /\ resp[c] = Failure("storage")
        /\ Len(ItemsOf(req[c].data)) = 2
        /\ Cardinality(ItemRows(db, req[c].id)) = 1

\* C5: every committed header with its items is what one single request
\* submitted (or the blank header of an upload, without items), and after a
\* save commits the identifier holds that save's header and items.
C5_LastWriteWins ==
    /\ \A r \in db.headers :
          \/ /\ \A i \in 1..Len(HeaderCols) : r[HeaderCols[i][2]] = Blank
             /\ ItemRows(db, r.hainyu_id) = {}
          \/ \E data \in StoreBodies :
                /\ HeaderHolds(r, HeaderOf(data))
                /\ ItemsHold(db, r.hainyu_id, ItemsOf(data))
    /\ lastOp.op = "save" =>
          /\ Known(db, lastOp.id)
          /\ HeaderHolds(HeaderRow(db, lastOp.id), HeaderOf(lastOp.data))
          /\ ItemsHold(db, lastOp.id, ItemsOf(lastOp.data))

\* a second save to an identifier has committed while the other connection
\* was turned away by the write lock
C5_Witness ==
    \E c \in Conns :
        /\ pc[c] = "done"
        /\ resp[c] = Failure("locked")
        /\ lastOp.op = "save"
        /\ db.seq >= 3
        /\ Cardinality(ItemRows(db, lastOp.id)) = 1

\* C9: no two header rows share an identifier, committed or inside a
\* transaction, and a save or an upload adds one header row exactly when
\* its identifier had none.
C9_OneHeaderPerId ==
    /\ [](\A r1, r2 \in db.headers : r1.hainyu_id = r2.hainyu_id => r1 = r2)
    /\ [](\A c \in Conns : \A r1, r2 \in tx[c].headers :
             r1.hainyu_id = r2.hainyu_id => r1 = r2)
    /\ [][/\ \A c \in Conns : SaveCommitStep(c) =>
               Cardinality(db'.headers) = Cardinality(db.headers)
                 + (IF Known(db, req[c].id) THEN 0 ELSE 1)
          /\ UploadStep =>
               Cardinality(db'.headers) = Cardinality(db.headers)
                 + (IF Known(db, lastOp'.id) THEN 0 ELSE 1)]_vars

\* one identifier has been saved to and uploaded to: one row holds both
C9_Witness ==
    /\ Cardinality(db.headers) = 1
    /\ \E r \in db.headers : r.mark_image # NULL /\ r.shipper # Blank

----------------------------------------------------------------------------
(* One client that saves, uploads and reads back (ReadSpec).               *)

\* numbers given as text, a non-numeric text, a boolean
ItemOdd ==
    [packageType |-> TextV(<<"C", "T", "N">>),
     noFrom |-> TextV(<<"1", "2">>), qty |-> TextV(<<"a", "b", "c">>),
     L |-> TextV(<<"1", ".", "5">>), W |-> BoolV(TRUE),
     weightKg |-> TextV(<<"x">>)]

\* numbers whose storage class the column changes
ItemMix ==
    [packageType |-> NULL, noFrom |-> RealV(20), noTo |-> RealV(25),
     qty |-> IntV(4), L |-> IntV(3), weightKg |-> RealV(5), m3 |-> NULL]

\* a header whose shipper is a number
HdrNum == [date |-> Jan1, shipper |-> IntV(7), dest |-> NULL]

\* a header whose mark is an array
HdrArray == [mark |-> ArrayV(<<>>)]

ReadBodies ==
    { Body(HdrAcme, <<ItemCtn, ItemMix>>),
      Body(HdrShort, <<ItemBag>>),
      Body(HdrBolt, <<ItemOdd>>),
      Body(HdrNum, <<>>),
      Body(HdrBolt, <<ItemPlt, ItemArray>>),
      Body(HdrArray, <<ItemBag>>),
      EmptyDict }

ReadFiles == {NULL, PhotoPng, NotesTxt}

ReadNext ==
    \/ \E id \in StoreIds, data \in ReadBodies : SaveUpsert(1, id, data)
    \/ SaveDelete(1)
    \/ SaveInsert(1)
    \/ SaveCommit(1)
    \/ StorageError(1)
    \/ \E id \in StoreIds, file \in ReadFiles, now \in Clock :
          UploadMarkImage(1, id, file, now)
    \/ \E id \in StoreIds : GetHeader(1, id)
    \/ GetItems(1)
    \/ Return(1)

ReadSpec == Init /\ [][ReadNext]_vars

\* a body the interface describes: header fields that are strings (or
\* null), items whose packageType is a string and whose numeric fields are
\* numbers (or null)
ValidBody(data) ==
    /\ DOMAIN HeaderOf(data) \subseteq HeaderKeys
    /\ \A key \in DOMAIN HeaderOf(data) :
          HeaderOf(data)[key].t \in {"text", "null"}
    /\ \A k \in 1..Len(ItemsOf(data)) :
          /\ DOMAIN ItemsOf(data)[k] \subseteq ItemKeys
          /\ Get(ItemsOf(data)[k], "packageType").t \in {"text", "null"}
          /\ \A key \in NumericKeys :
                Get(ItemsOf(data)[k], key).t \in {"int", "real", "null"}

\* connection c has answered a read of the identifier last saved to, and
\* nothing was committed in between
ReadAfterSave(c) ==
    /\ pc[c] = "done"
    /\ req[c].op = "get"
    /\ lastOp.op = "save"
    /\ lastOp.id = req[c].id

\* C1: a read that follows a completed save of a valid body to the same
\* identifier, with nothing in between, returns the submitted header fields
\* and the submitted items, as many and in the submitted order.
C1_RoundTrip ==
    \A c \in Conns :
        ReadAfterSave(c) /\ ValidBody(lastOp.data) =>
            /\ resp[c].status = 200
            /\ \A key \in DOMAIN HeaderOf(lastOp.data) :
                  SameValue(resp[c].header[key], HeaderOf(lastOp.data)[key])
            /\ Len(resp[c].items) = Len(ItemsOf(lastOp.data))
            /\ \A k \in 1..Len(ItemsOf(lastOp.data)) : \A key \in ItemKeys :
                  SameValue(resp[c].items[k][key],
                            Get(ItemsOf(lastOp.data)[k], key))

\* two items, with numbers the columns convert, have been read back
C1_Witness ==
    \E c \in Conns :
        /\ ReadAfterSave(c)
        /\ lastOp.data = Body(HdrAcme, <<ItemCtn, ItemMix>>)
        /\ Len(resp[c].items) = 2
        /\ resp[c].header.markImage # NULL

\* C8: a read that follows a completed save returns null for every numeric
\* field of every item whose submitted value was absent or not a number.
C8_NonNumericIsNull ==
    \A c \in Conns :
        ReadAfterSave(c) =>
            /\ resp[c].status = 200
            /\ Len(resp[c].items) = Len(ItemsOf(lastOp.data))
            /\ \A k \in 1..Len(ItemsOf(lastOp.data)) : \A key \in NumericKeys :
                  ~IsNum(Get(ItemsOf(lastOp.data)[k], key)) =>
                      resp[c].items[k][key] = NULL

\* C4: a committed save leaves every header's mark_image as it was (null
\* for a header it creates); an upload to an identifier that has a header
\* changes that header's mark_image and nothing else, to one that has none
\* adds a header of empty strings with the new path, and touches no item
\* row and no other header; a read returns the stored mark_image.
C4_ColumnFrame ==
    /\ [][/\ \A c \in Conns : SaveCommitStep(c) =>
               \A r \in db'.headers :
                   r.mark_image = IF Known(db, r.hainyu_id)
                                  THEN HeaderRow(db, r.hainyu_id).mark_image
                                  ELSE NULL
          /\ UploadStep =>
               /\ db'.items = db.items
               /\ {r \in db'.headers : r.hainyu_id # lastOp'.id}
                    = {r \in db.headers : r.hainyu_id # lastOp'.id}
               /\ Known(db', lastOp'.id)
               /\ HeaderRow(db', lastOp'.id) =
                    IF Known(db, lastOp'.id)
                    THEN [HeaderRow(db, lastOp'.id) EXCEPT
                            !.mark_image = lastOp'.path]
                    ELSE [hainyu_id |-> lastOp'.id, date |-> Blank,
                          shipper |-> Blank, dest |-> Blank,
                          item_name |-> Blank, mark |-> Blank,
                          mark_image |-> lastOp'.path]]_vars
    /\ [](\A c \in Conns :
            pc[c] = "done" /\ req[c].op = "get" /\ resp[c].status = 200 =>
                /\ Known(db, req[c].id)
                /\ resp[c].header.markImage
                     = HeaderRow(db, req[c].id).mark_image)

\* a read returns the image path after a later save of the header text
C4_Witness ==
    \E c \in Conns :
        /\ ReadAfterSave(c)
        /\ resp[c].status = 200
        /\ resp[c].header.markImage # NULL
        /\ resp[c].header.shipper = TextV(<<"A", "C", "M", "E">>)

----------------------------------------------------------------------------
(* One client that saves headers and searches (SearchSpec).                *)

IdC == TextV(<<"c">>)

SearchIds == {IdA, IdB, IdC}

\* a header whose texts hold the LIKE wildcards
HdrPct ==
    [date |-> Jan1, shipper |-> TextV(<<"5", "0", "%">>),
     dest |-> TextV(<<"a", "_", "b">>), itemName |-> Blank, mark |-> Blank]

\* a header with an empty date
HdrUndated ==
    [date |-> Blank, shipper |-> TextV(<<"B", "o", "l", "t">>),
     dest |-> Blank, itemName |-> Blank, mark |-> TextV(<<"x", "y">>)]

SearchBodies ==
    { Body(HdrAcme, <<>>), Body(HdrBolt, <<>>), Body(HdrPct, <<>>),
      Body(HdrShort, <<>>), Body(HdrUndated, <<>>) }

Queries ==
    { <<>>, <<" ">>, <<"a", "c", "m", "e">>, <<" ", "o", "k", " ">>,
      <<"%">>, <<"_">>, <<"0", "%">>, <<"z">> }

SearchNext ==
    \/ \E id \in SearchIds, data \in SearchBodies : SaveUpsert(1, id, data)
    \/ SaveDelete(1)
    \/ SaveCommit(1)
    \/ \E q \in Queries : Search(1, q)
    \/ Return(1)

SearchSpec == Init /\ [][SearchNext]_vars

SearchDone(c) == pc[c] = "done" /\ req[c].op = "search"

\* text s holds q as a substring, ASCII letters compared without case
Contains(x, q) ==
    /\ x.t = "text"
    /\ \E off \in 0..Len(x.v) :
          /\ off + Len(q) <= Len(x.v)
          /\ \A k \in 1..Len(q) : Fold(x.v[off + k]) = Fold(q[k])

\* C6: every header a search with a non-blank query returns holds the
\* query as a case-insensitive substring of its identifier, shipper, dest,
\* itemName or mark.
C6_SearchFilter ==
    \A c \in Conns :
        SearchDone(c) /\ Strip(req[c].q) # <<>> =>
            \A i \in 1..Len(resp[c].results) :
                LET r == HeaderRow(db, resp[c].results[i].hainyuId)
                IN  \/ Contains(r.hainyu_id, Strip(req[c].q))
                    \/ Contains(r.shipper, Strip(req[c].q))
                    \/ Contains(r.dest, Strip(req[c].q))
                    \/ Contains(r.item_name, Strip(req[c].q))
                    \/ Contains(r.mark, Strip(req[c].q))

Smaller(a, b) == IF a < b THEN a ELSE b

\* the results of a blank search: as many as there are headers, up to the
\* limit, each a stored header, none twice, no header left out that is more
\* recent than one returned, and in descending order of date
BlankSearchOrdered(c) ==
    LET res == resp[c].results
    IN  /\ Len(res) = Smaller(SearchLimit, Cardinality(db.headers))
        /\ \A i \in 1..Len(res) :
              /\ Known(db, res[i].hainyuId)
              /\ res[i] = SearchJson(HeaderRow(db, res[i].hainyuId))
        /\ \A i, j \in 1..Len(res) :
              i < j => /\ res[i].hainyuId # res[j].hainyuId
                       /\ ~ColLess(res[i].date, res[j].date)
        /\ \A h \in db.headers :
              (\A i \in 1..Len(res) : res[i].hainyuId # h.hainyu_id) =>
                  \A i \in 1..Len(res) : ~ColLess(res[i].date, h.date)

----------------------------------------------------------------------------
(* One client that saves, uploads and summarizes (SummarySpec).            *)

\* an item without quantity
ItemLoose ==
    [packageType |-> TextV(<<"L">>), qty |-> NULL, weightKg |-> RealV(20),
     m3 |-> RealV(3)]

SummaryBodies ==
    { Body(HdrAcme, <<ItemCtn, ItemPlt>>),
      Body(HdrBolt, <<ItemBag, ItemLoose>>),
      Body(HdrBolt, <<ItemLoose>>),
      Body(HdrShort, <<>>) }

NoFilters == [dateFrom |-> <<>>, dateTo |-> <<>>, shipper |-> <<>>, dest |-> <<>>]

Filters ==
    { NoFilters,
      [NoFilters EXCEPT !.shipper = <<" ">>],
      [NoFilters EXCEPT !.dateFrom = Jan2.v],
      [NoFilters EXCEPT !.dateTo = Jan1.v, !.shipper = <<"a", "c">>],
      [NoFilters EXCEPT !.dest = <<" ", "o", "s", "a", "k", "a">>] }

SummaryNext ==
    \/ \E id \in StoreIds, data \in SummaryBodies : SaveUpsert(1, id, data)
    \/ SaveDelete(1)
    \/ SaveInsert(1)
    \/ SaveCommit(1)
    \/ \E id \in StoreIds, now \in Clock : UploadMarkImage(1, id, PhotoPng, now)
    \/ \E f \in Filters : Summary(1, f)
    \/ Return(1)

SummarySpec == Init /\ [][SummaryNext]_vars

\* connection c has answered a summary whose filters are all blank
SummaryDone(c) ==
    /\ pc[c] = "done"
    /\ req[c].op = "summary"
    /\ \A k \in DOMAIN req[c].filters : Strip(req[c].filters[k]) = <<>>

\* a number in tenths, a missing value as 0
Amount(x) == IF IsNum(x) THEN Tenths(x) ELSE 0

RECURSIVE Total(_, _)
Total(rows, amount) ==
    IF rows = {} THEN 0
    ELSE LET r == CHOOSE x \in rows : TRUE
         IN  amount[r] + Total(rows \ {r}, amount)

\* C7: with at most 500 headers, a summary without filters has exactly one
\* row for each header; its itemCount is the number of the header's item
\* rows, totalQty the sum of their qty, totalM3 the sum of their m3 and
\* totalWeight the sum of qty * weightKg, a missing value counting as 0; a
\* header without item rows has a row of zeros.
C7_SummaryTotals ==
    \A c \in Conns :
        SummaryDone(c) /\ Cardinality(db.headers) <= SummaryLimit =>
            /\ Len(resp[c].results) = Cardinality(db.headers)
            /\ \A h \in db.headers :
                  \E i \in 1..Len(resp[c].results) :
                      LET row == resp[c].results[i]
                          its == ItemRows(db, h.hainyu_id)
                      IN  /\ row.hainyuId = h.hainyu_id
                          /\ row.itemCount = IntV(Cardinality(its))
                          /\ IsNum(row.totalQty)
                          /\ Tenths(row.totalQty)
                               = Total(its, [r \in its |-> Amount(r.qty)])
                          /\ IsNum(row.totalM3)
                          /\ Tenths(row.totalM3)
                               = Total(its, [r \in its |-> Amount(r.m3)])
                          /\ IsNum(row.totalWeight)
                          /\ Tenths(row.totalWeight)
                               = Total(its, [r \in its |->
                                    (Amount(r.qty) * Amount(r.weight_kg)) \div 10])

\* a summary has a row of two items, with their totals, and a row of none
C7_Witness ==
    \E c \in Conns :
        /\ SummaryDone(c)
        /\ Len(resp[c].results) = 2
        /\ \E i, j \in 1..2 :
              /\ resp[c].results[i].itemCount = IntV(2)
              /\ resp[c].results[i].totalQty = IntV(5)
              /\ resp[c].results[i].totalWeight = RealV(60)
              /\ resp[c].results[i].totalM3 = RealV(3)
              /\ resp[c].results[j].itemCount = IntV(0)
              /\ resp[c].results[j].totalQty = IntV(0)

====
